---- MODULE Spec2Model ----
(***************************************************************************)
(* A model of Int64.js: an Int64 object is a pair (buffer, offset) over a  *)
(* node Buffer, written by setValue / _2scomp and read by valueOf /        *)
(* toOctetString.                                                          *)
(*                                                                         *)
(* Representation.  TLC's integers are 32 bits wide, so every quantity of  *)
(* the program wider than a byte is kept as its base-256 digits:           *)
(*   - a Buffer is a function 0..n-1 -> 0..255 (the index is the JS one);  *)
(*   - a 32-bit word is a function 0..3 -> 0..255, digit 0 the lowest;     *)
(*   - the magnitude of a JS number is a function 0..8 -> 0..255, digit 0  *)
(*     the lowest (so magnitudes up to 2^72 - 1 are covered);              *)
(*   - a JS string is a sequence of one-character strings.                 *)
(* JS numbers are doubles.  The numbers the model feeds in are integers a  *)
(* double holds exactly, NaN and +/-Infinity; on those, abs, % 2^32 and    *)
(* / 2^32 are exact, so digit arithmetic computes what the program does.   *)
(***************************************************************************)
EXTENDS Integers, Sequences, FiniteSets, TLC

VARIABLES buffer, offset, owned, last, obs, nops

vars == <<buffer, offset, owned, last, obs, nops>>

-----------------------------------------------------------------------------
(* Bounds of the model. *)

\* Calls made and bytes written after the construction of the Int64.
MaxOps == 2

\* Bytes a caller-owned Buffer has beyond the 8 an Int64 needs.
Pad == 1

-----------------------------------------------------------------------------
(* JS values. *)

Byte == 0..255

MagIdx == 0..8

ZeroMag == [i \in MagIdx |-> 0]

ZeroWord == [i \in 0..3 |-> 0]

Num(neg, mag) == [ty |-> "number", k |-> "finite", neg |-> neg, mag |-> mag]

NaN == [ty |-> "number", k |-> "NaN", neg |-> FALSE, mag |-> ZeroMag]

Infinity(neg) == [ty |-> "number", k |-> "Infinity", neg |-> neg, mag |-> ZeroMag]

Str(s) == [ty |-> "string", str |-> s]

Undefined == [ty |-> "undefined"]

Object == [ty |-> "object"]

\* The magnitude whose digits, most significant first, are bs.
MagBE(bs) == [i \in MagIdx |-> IF i < Len(bs) THEN bs[Len(bs) - i] ELSE 0]

IsZeroMag(m) == \A i \in MagIdx : m[i] = 0

\* a === b of JS on numbers: NaN equals nothing, -0 equals 0.
StrictEq(a, b) ==
    /\ a.ty = "number" /\ b.ty = "number"
    /\ a.k # "NaN" /\ b.k # "NaN"
    /\ a.k = b.k
    /\ a.mag = b.mag
    /\ (a.neg = b.neg \/ (a.k = "finite" /\ IsZeroMag(a.mag)))

\* ToUint32 of JS, as the word of its bits: what `v & 0xff` and `v >>> 8`
\* see of v.  NaN, Infinity and undefined convert to 0; a negative integer
\* to 2^32 minus its magnitude mod 2^32.
RECURSIVE NegWord(_, _, _)
NegWord(w, i, carry) ==
    IF i > 3 THEN w
    ELSE LET v == (255 - w[i]) + carry
         IN  NegWord([w EXCEPT ![i] = v % 256], i + 1, v \div 256)

ToUint32(v) ==
    IF v.ty = "number" /\ v.k = "finite"
    THEN LET w == [i \in 0..3 |-> v.mag[i]]
         IN  IF v.neg THEN NegWord(w, 0, 1) ELSE w
    ELSE ZeroWord

-----------------------------------------------------------------------------
(* Lines 18-26: masks and the hex table. *)

HexChars == <<"0", "1", "2", "3", "4", "5", "6", "7",
              "8", "9", "a", "b", "c", "d", "e", "f">>

\* i.toString(16) for an integer i >= 0.
RECURSIVE ToString16(_)
ToString16(i) ==
    IF i < 16 THEN <<HexChars[i + 1]>>
    ELSE ToString16(i \div 16) \o <<HexChars[(i % 16) + 1]>>

\* _HEX[i] without the leading '0' of the values below 0x10.
HEXNoPad(i) == ToString16(i)

\* _HEX[i] = (i > 0xF ? '' : '0') + i.toString(16)
HEX(i) == (IF i > 15 THEN << >> ELSE <<"0">>) \o ToString16(i)

\* hi > VAL32 for hi = m / 2^32, the quotient a double holds exactly: m > 2^64.
GtVAL32(m) == m[8] > 1 \/ (m[8] = 1 /\ \E i \in 0..7 : m[i] # 0)

-----------------------------------------------------------------------------
(* Lines 63-70: _2scomp. *)

\* The loop of _2scomp without the complement: v = b[i] + carry.
RECURSIVE NoXor2scomp(_, _, _, _)
NoXor2scomp(b, o, i, carry) ==
    IF i < o THEN b
    ELSE LET v == b[i] + carry
         IN  NoXor2scomp([b EXCEPT ![i] = v % 256], o, i - 1, v \div 256)

\* The loop of _2scomp from index i down to o.
RECURSIVE Loop2scomp(_, _, _, _)
Loop2scomp(b, o, i, carry) ==
    IF i < o THEN b
    ELSE LET v == (255 - b[i]) + carry
         IN  Loop2scomp([b EXCEPT ![i] = v % 256], o, i - 1, v \div 256)

_2scomp(b, o) == Loop2scomp(b, o, o + 7, 1)

-----------------------------------------------------------------------------
(* Lines 78-113: setValue. *)

HexDigitOf(c) ==
    CASE c \in {"0"} -> 0 [] c \in {"1"} -> 1 [] c \in {"2"} -> 2 [] c \in {"3"} -> 3
      [] c \in {"4"} -> 4 [] c \in {"5"} -> 5 [] c \in {"6"} -> 6 [] c \in {"7"} -> 7
      [] c \in {"8"} -> 8 [] c \in {"9"} -> 9
      [] c \in {"a", "A"} -> 10 [] c \in {"b", "B"} -> 11 [] c \in {"c", "C"} -> 12
      [] c \in {"d", "D"} -> 13 [] c \in {"e", "E"} -> 14 [] c \in {"f", "F"} -> 15
      [] OTHER -> 16

IsHexDigit(c) == HexDigitOf(c) < 16

\* s.substr(from) with from >= 0 counted from the left.
Substr(s, from) == SubSeq(s, from + 1, Len(s))

\* The longest prefix of s made of hex digits.
RECURSIVE DigitPrefix(_)
DigitPrefix(s) ==
    IF s # << >> /\ IsHexDigit(Head(s)) THEN <<Head(s)>> \o DigitPrefix(Substr(s, 1))
    ELSE << >>

\* The magnitude of a sequence of at most 18 hex digits.
MagOfDigits(ds) ==
    LET d(j) == IF j < Len(ds) THEN HexDigitOf(ds[Len(ds) - j]) ELSE 0
    IN  [i \in MagIdx |-> d(2 * i) + 16 * d(2 * i + 1)]

\* parseInt(s, 16), for s without white space or sign: an optional 0x or 0X,
\* then the longest run of hex digits; NaN when that run is empty.
ParseInt16(s) ==
    LET t  == IF Len(s) >= 2 /\ s[1] = "0" /\ s[2] \in {"x", "X"} THEN Substr(s, 2) ELSE s
        ds == DigitPrefix(t)
    IN  IF ds = << >> THEN NaN ELSE Num(FALSE, MagOfDigits(ds))

\* s.replace(/^0x/, '')
Strip0x(s) == IF Len(s) >= 2 /\ s[1] = "0" /\ s[2] = "x" THEN Substr(s, 2) ELSE s

\* s.substr(-8)
SubstrLast8(s) == IF Len(s) > 8 THEN Substr(s, Len(s) - 8) ELSE s

\* Lines 105-109 with the skip of the last byte (i > 0 for i >= 0).
RECURSIVE CopyBytesSkip0(_, _, _, _, _)
CopyBytesSkip0(b, o, i, lo, hi) ==
    IF i < 1 THEN b
    ELSE CopyBytesSkip0([b EXCEPT ![o + i] = lo[0]], o, i - 1,
                        IF i = 4 THEN hi ELSE [j \in 0..3 |-> IF j < 3 THEN lo[j + 1] ELSE 0],
                        hi)

\* Lines 105-109 with the halves switched one byte late (i == 3 for i == 4).
RECURSIVE CopyBytesLate(_, _, _, _, _)
CopyBytesLate(b, o, i, lo, hi) ==
    IF i < 0 THEN b
    ELSE CopyBytesLate([b EXCEPT ![o + i] = lo[0]], o, i - 1,
                       IF i = 3 THEN hi ELSE [j \in 0..3 |-> IF j < 3 THEN lo[j + 1] ELSE 0],
                       hi)

\* Lines 105-109: for i = 7..0, b[o+i] = lo & 0xff; lo = i == 4 ? hi : lo >>> 8.
\* lo and hi are the words ToUint32 gives: & 0xff and >>> 8 read nothing else.
RECURSIVE CopyBytes(_, _, _, _, _)
CopyBytes(b, o, i, lo, hi) ==
    IF i < 0 THEN b
    ELSE CopyBytes([b EXCEPT ![o + i] = lo[0]], o, i - 1,
                   IF i = 4 THEN hi ELSE [j \in 0..3 |-> IF j < 3 THEN lo[j + 1] ELSE 0],
                   hi)

\* Lines 79-99: the decoding of the arguments into negate, hi, lo, or a throw.
Decode(args) ==
    LET a1 == IF Len(args) >= 1 THEN args[1] ELSE Undefined
        a2 == IF Len(args) >= 2 THEN args[2] ELSE Undefined
    IN  IF Len(args) = 1
        THEN IF a1.ty = "number"
             THEN LET negate == a1.neg /\ a1.k # "NaN"
                                      /\ ~(a1.k = "finite" /\ IsZeroMag(a1.mag))
                      tooBig == a1.k = "Infinity" \/ (a1.k = "finite" /\ GtVAL32(a1.mag))
                      lo     == IF a1.k = "finite"
                                THEN Num(FALSE, [i \in MagIdx |-> IF i < 4 THEN a1.mag[i] ELSE 0])
                                ELSE NaN
                      \* hi = (hi / VAL32) | 0
                      hi     == IF a1.k = "finite"
                                THEN Num(FALSE, [i \in MagIdx |-> IF i < 4 THEN a1.mag[i + 4] ELSE 0])
                                ELSE NaN
                  IN  [thrown |-> IF tooBig THEN "RangeError" ELSE "none",
                       negate |-> negate, hi |-> hi, lo |-> lo]
             ELSE IF a1.ty = "string"
             THEN LET s  == Strip0x(a1.str)
                      ls == SubstrLast8(s)
                      hs == IF Len(s) > 8 THEN SubSeq(s, 1, Len(s) - 8) ELSE << >>
                  IN  [thrown |-> "none", negate |-> FALSE,
                       hi |-> ParseInt16(hs), lo |-> ParseInt16(ls)]
             ELSE [thrown |-> "Error", negate |-> FALSE, hi |-> a1, lo |-> a2]
        ELSE [thrown |-> "none", negate |-> FALSE, hi |-> a1, lo |-> a2]

\* setValue on the Int64 (b, o): what it throws and the Buffer it leaves.
setValue(b, o, args) ==
    LET d == Decode(args)
    IN  IF d.thrown # "none" THEN [thrown |-> d.thrown, b |-> b]
        ELSE LET c == CopyBytes(b, o, 7, ToUint32(d.lo), ToUint32(d.hi))
             IN  [thrown |-> "none", b |-> IF d.negate THEN _2scomp(c, o) ELSE c]

-----------------------------------------------------------------------------
(* Lines 119-140: valueOf. *)

\* The digits (v & 0xff) the loop adds as (v & 0xff) * 256^i, i = 0..7,
\* with the running complement when negate is set.
RECURSIVE Digits(_, _, _, _, _, _)
Digits(b, o, negate, i, carry, acc) ==
    IF i > 7 THEN acc
    ELSE LET raw == b[o + 7 - i]
             v   == IF negate THEN (255 - raw) + carry ELSE raw
         IN  Digits(b, o, negate, i + 1, IF negate THEN v \div 256 ELSE carry,
                    [acc EXCEPT ![i] = v % 256])

\* x > 2^53, for x >= 2^53.
GtMAX_INT(x) == x[7] > 0 \/ x[6] > 32 \/ (x[6] = 32 /\ \E i \in 0..5 : x[i] # 0)

\* x >= Int64.MAX_INT, MAX_INT = 2^53.  The sum is formed in doubles, lowest
\* digit first; rounding is monotone and 2^53 is a double, so the rounded sum
\* is >= 2^53 exactly when the integer sum is, and below 2^53 the sum is exact.
GeMAX_INT(x) == x[7] > 0 \/ x[6] >= 32

\* Lines 135-139 with Infinity returned whatever the sign.
valueOfResultUnsigned(negate, x, tooBig) ==
    IF tooBig THEN Infinity(FALSE) ELSE Num(negate, x)

\* Lines 135-139: +/-Infinity when x >= MAX_INT, else negate ? -x : x.
valueOfResult(negate, x, tooBig) ==
    IF tooBig THEN Infinity(negate) ELSE Num(negate, x)

\* valueOf with the running complement started at carry = 0.
valueOfNoCarry(b, o) ==
    LET negate == b[0] >= 128
        x      == Digits(b, o, negate, 0, 0, ZeroMag)
    IN  valueOfResult(negate, x, GeMAX_INT(x))

\* negate = b[0] & 0x80: the sign is read at index 0 of the Buffer.
valueOf(b, o) ==
    LET negate == b[0] >= 128
        x      == Digits(b, o, negate, 0, 1, ZeroMag)
    IN  valueOfResult(negate, x, GeMAX_INT(x))

-----------------------------------------------------------------------------
(* Lines 152-159: toOctetString. *)

RECURSIVE Join(_, _, _)
Join(out, sep, i) ==
    IF i > Len(out) THEN << >>
    ELSE (IF i > 1 THEN sep ELSE << >>) \o out[i] \o Join(out, sep, i + 1)

\* toOctetString reading b[i] for b[o+i].
toOctetStringNoOffset(b, o, sep) == Join([i \in 1..8 |-> HEX(b[i - 1])], sep, 1)

\* out[i] = _HEX[b[o+i]]; out.join(sep || '')
toOctetString(b, o, sep) == Join([i \in 1..8 |-> HEX(b[o + i - 1])], sep, 1)

-----------------------------------------------------------------------------
(* The arguments the calls are made with. *)

\* Magnitudes of the numbers passed: 0, 1, 42, 2^32 - 1, 2^32, 2^53 - 1, 2^53,
\* 2^63 - 1024, 2^63, 2^64 - 2048, 2^64, 2^64 + 4096.  Each is a double.
NumberMags ==
    { MagBE(<< >>), MagBE(<<1>>), MagBE(<<\h2a>>),
      MagBE(<<\hff, \hff, \hff, \hff>>),
      MagBE(<<1, 0, 0, 0, 0>>),
      MagBE(<<\h1f, \hff, \hff, \hff, \hff, \hff, \hff>>),
      MagBE(<<\h20, 0, 0, 0, 0, 0, 0>>),
      MagBE(<<\h7f, \hff, \hff, \hff, \hff, \hff, \hfc, 0>>),
      MagBE(<<\h80, 0, 0, 0, 0, 0, 0, 0>>),
      MagBE(<<\hff, \hff, \hff, \hff, \hff, \hff, \hf8, 0>>),
      MagBE(<<1, 0, 0, 0, 0, 0, 0, 0, 0>>),
      MagBE(<<1, 0, 0, 0, 0, 0, 0, \h10, 0>>) }

Numbers ==
    { Num(FALSE, m) : m \in NumberMags }
      \cup { Num(TRUE, m) : m \in NumberMags \ {ZeroMag} }
      \cup { NaN, Infinity(FALSE), Infinity(TRUE) }

Strings ==
    { Str(<<"0", "1", "2", "3", "4", "5", "6", "7", "8", "9", "a", "b", "c", "d", "e", "f">>),
      Str(<<"0", "x", "F", "E", "D", "C", "B", "A", "9", "8", "7", "6", "5", "4", "3", "2", "1", "0">>),
      Str(<<"0", "x", "8", "0", "0", "0", "0", "0", "0", "0", "0", "0", "0", "0", "0", "0", "0", "0">>),
      Str(<<"0", "0", "0", "0", "0", "0", "0", "0", "0", "0", "0", "0", "0", "A", "0", "f">>),
      Str(<<"f", "f">>),
      Str(<<"1", "2", "3", "4", "5", "6", "7", "8", "9">>),
      Str(<<"z">>),
      Str(<< >>) }

\* The 32-bit values passed as raw halves: 0, 0x00200000, 0x89abcdef, 0xffffffff.
Halves ==
    { Num(FALSE, MagBE(<< >>)),
      Num(FALSE, MagBE(<<\h00, \h20, \h00, \h00>>)),
      Num(FALSE, MagBE(<<\h89, \hab, \hcd, \hef>>)),
      Num(FALSE, MagBE(<<\hff, \hff, \hff, \hff>>)) }

\* The argument lists of setValue and of the constructor's else branch.
ArgLists ==
    { <<n>> : n \in Numbers } \cup { <<s>> : s \in Strings }
      \cup { <<hi, lo>> : hi \in Halves, lo \in Halves }
      \cup { <<Object>>, <<Undefined>>, << >> }

\* The argument lists used on an Int64 that wraps a caller's Buffer:
\* 42, -42, -1, 2^53, -2^63, 2^64 + 4096 (thrown), a string, two halves, an object.
ViewArgLists ==
    { <<Num(FALSE, MagBE(<<\h2a>>))>>,
      <<Num(TRUE, MagBE(<<\h2a>>))>>,
      <<Num(TRUE, MagBE(<<1>>))>>,
      <<Num(FALSE, MagBE(<<\h20, 0, 0, 0, 0, 0, 0>>))>>,
      <<Num(TRUE, MagBE(<<\h80, 0, 0, 0, 0, 0, 0, 0>>))>>,
      <<Num(FALSE, MagBE(<<1, 0, 0, 0, 0, 0, 0, \h10, 0>>))>>,
      <<Str(<<"0", "1", "2", "3", "4", "5", "6", "7", "8", "9", "a", "b", "c", "d", "e", "f">>)>>,
      <<Num(FALSE, MagBE(<<\h89, \hab, \hcd, \hef>>)), Num(FALSE, MagBE(<< >>))>>,
      <<Object>> }

\* The argument lists another Int64 over the same Buffer is set with: 1, -1.
AliasArgLists ==
    { <<Num(FALSE, MagBE(<<1>>))>>, <<Num(TRUE, MagBE(<<1>>))>> }

\* new Buffer(8) is not initialised: its bytes are whatever the allocator left.
FreshBuffers == { [i \in 0..7 |-> f] : f \in {\h00, \ha5} }

Offsets == 0..Pad

\* The 8-byte contents a caller's Buffer starts with, most significant first:
\* 0, 42, -2^53 and -2^63.
Patterns ==
    { <<0, 0, 0, 0, 0, 0, 0, 0>>,
      <<0, 0, 0, 0, 0, 0, 0, \h2a>>,
      <<\hff, \he0, 0, 0, 0, 0, 0, 0>>,
      <<\h80, 0, 0, 0, 0, 0, 0, 0>> }

\* A caller's Buffer of 8 + Pad bytes: a pattern at index p, fill elsewhere.
CallerBuffers ==
    { [i \in 0..(7 + Pad) |-> IF i >= p /\ i < p + 8 THEN pat[i - p + 1] ELSE f] :
        pat \in Patterns, p \in Offsets, f \in {\h00, \h80} }

\* The bytes the owner of a Buffer writes into it directly.
WrittenBytes == {\h80, \h2b}

Separators == { << >>, <<" ">> }

-----------------------------------------------------------------------------
(* The state machine.  buffer and offset are the fields of the Int64; owned *)
(* tells whether the constructor allocated the Buffer; last is the last     *)
(* call that may write the Buffer and obs the last call that reads it.      *)

NoCall == [op |-> "none", this |-> 0, args |-> << >>, thrown |-> "none",
           before |-> << >>, run |-> 0]

NoObs == [op |-> "none", sep |-> << >>, val |-> Undefined]

Constructed == buffer # << >>

Init ==
    /\ buffer = << >>
    /\ offset = 0
    /\ owned = FALSE
    /\ last = NoCall
    /\ obs = NoObs
    /\ nops = 0

\* Lines 44-48: new Int64(args...) allocates a Buffer and calls setValue; when
\* setValue throws, the constructor throws and no object exists.
Int64Owned(args) ==
    /\ ~Constructed
    /\ \E fresh \in FreshBuffers :
         LET r == setValue(fresh, 0, args)
         IN  /\ last' = [op |-> "new", this |-> 0, args |-> args,
                         thrown |-> r.thrown, before |-> << >>, run |-> 0]
             /\ IF r.thrown = "none"
                THEN buffer' = r.b /\ owned' = TRUE
                ELSE UNCHANGED <<buffer, owned>>
    /\ offset' = 0
    /\ obs' = NoObs
    /\ UNCHANGED nops

\* Lines 41-43: new Int64(a1, a2) over a caller's Buffer.
Int64View(a1, a2) ==
    /\ ~Constructed
    /\ buffer' = a1
    /\ offset' = a2
    /\ owned' = FALSE
    /\ UNCHANGED <<last, obs, nops>>

\* this.setValue(args...)
SetValue(args) ==
    /\ Constructed
    /\ nops < MaxOps
    /\ LET r == setValue(buffer, offset, args)
       IN  /\ buffer' = r.b
           /\ last' = [op |-> "setValue", this |-> offset, args |-> args,
                       thrown |-> r.thrown, before |-> << >>, run |-> 0]
    /\ obs' = NoObs
    /\ nops' = nops + 1
    /\ UNCHANGED <<offset, owned>>

\* this._2scomp().  last.run counts the _2scomp calls made in a row and
\* last.before keeps the Buffer as it was before the first of them.
TwosComp ==
    /\ Constructed
    /\ nops < MaxOps
    /\ buffer' = _2scomp(buffer, offset)
    /\ last' = [op |-> "_2scomp", this |-> offset, args |-> << >>, thrown |-> "none",
                before |-> IF last.op = "_2scomp" THEN last.before ELSE buffer,
                run |-> IF last.op = "_2scomp" THEN last.run + 1 ELSE 1]
    /\ obs' = NoObs
    /\ nops' = nops + 1
    /\ UNCHANGED <<offset, owned>>

\* Another Int64 over the same caller's Buffer, at offset o: its setValue.
AliasSetValue(o, args) ==
    /\ Constructed /\ ~owned
    /\ nops < MaxOps
    /\ LET r == setValue(buffer, o, args)
       IN  /\ buffer' = r.b
           /\ last' = [op |-> "alias", this |-> o, args |-> args,
                       thrown |-> r.thrown, before |-> << >>, run |-> 0]
    /\ obs' = NoObs
    /\ nops' = nops + 1
    /\ UNCHANGED <<offset, owned>>

\* The owner of the caller's Buffer writes buffer[i] = v.
BufferWrite(i, v) ==
    /\ Constructed /\ ~owned
    /\ nops < MaxOps
    /\ buffer' = [buffer EXCEPT ![i] = v]
    /\ last' = [op |-> "write", this |-> i, args |-> << >>,
                thrown |-> "none", before |-> << >>, run |-> 0]
    /\ obs' = NoObs
    /\ nops' = nops + 1
    /\ UNCHANGED <<offset, owned>>

\* this.valueOf()
ValueOf ==
    /\ Constructed
    /\ nops < MaxOps
    /\ obs' = [op |-> "valueOf", sep |-> << >>, val |-> valueOf(buffer, offset)]
    /\ nops' = nops + 1
    /\ UNCHANGED <<buffer, offset, owned, last>>

\* this.toOctetString(sep)
ToOctetString(sep) ==
    /\ Constructed
    /\ nops < MaxOps
    /\ obs' = [op |-> "toOctetString", sep |-> sep,
               val |-> Str(toOctetString(buffer, offset, sep))]
    /\ nops' = nops + 1
    /\ UNCHANGED <<buffer, offset, owned, last>>

\* An Int64 that owns its Buffer.
Next ==
    \/ \E args \in ArgLists : Int64Owned(args)
    \/ \E args \in ArgLists : SetValue(args)
    \/ TwosComp
    \/ ValueOf
    \/ \E sep \in Separators : ToOctetString(sep)

Spec == Init /\ [][Next]_vars

\* An Int64 that wraps a caller's Buffer, which the caller and other Int64
\* objects also write.
NextView ==
    \/ \E a1 \in CallerBuffers, a2 \in Offsets : Int64View(a1, a2)
    \/ \E args \in ViewArgLists : SetValue(args)
    \/ TwosComp
    \/ \E o \in Offsets, args \in AliasArgLists : AliasSetValue(o, args)
    \/ \E i \in 0..(7 + Pad), v \in WrittenBytes : BufferWrite(i, v)
    \/ ValueOf
    \/ \E sep \in Separators : ToOctetString(sep)

SpecView == Init /\ [][NextView]_vars

-----------------------------------------------------------------------------
(* What the claims speak of. *)

\* The 8 bytes of the Int64 (b, o), most significant first, indexed 0..7.
Region(b, o) == [k \in 0..7 |-> b[o + k]]

\* The last call that wrote was the constructor or setValue of this Int64.
LastIsSet == last.op \in {"new", "setValue"}

LastIsSetNumber ==
    LastIsSet /\ Len(last.args) = 1 /\ last.args[1].ty = "number"

LastIsSetInteger == LastIsSetNumber /\ last.args[1].k = "finite"

\* m < 2^53, m = 2^53, m <= 2^53.
MagBelow2p53(m) == m[8] = 0 /\ m[7] = 0 /\ m[6] < 32

MagIs2p53(m) == m[8] = 0 /\ m[7] = 0 /\ m[6] = 32 /\ \A i \in 0..5 : m[i] = 0

\* n lies outside [-2^63, 2^63 - 1].
OutsideInt64(n) ==
    \/ n.k = "Infinity"
    \/ /\ n.k = "finite"
       /\ \/ n.mag[8] > 0
          \/ ~n.neg /\ n.mag[7] >= 128
          \/ n.neg /\ (n.mag[7] > 128 \/ (n.mag[7] = 128 /\ \E i \in 0..6 : n.mag[i] # 0))

\* The carry into digit i of the sum of magnitude m and the unsigned value of
\* the bytes r (most significant first).
RECURSIVE CarryInto(_, _, _)
CarryInto(m, r, i) ==
    IF i = 0 THEN 0 ELSE (m[i - 1] + r[8 - i] + CarryInto(m, r, i - 1)) \div 256

\* m + unsigned(r) = 2^64.
Complements(m, r) ==
    /\ m[8] = 0
    /\ \A i \in 0..7 : (m[i] + r[7 - i] + CarryInto(m, r, i)) % 256 = 0
    /\ CarryInto(m, r, 8) = 1

\* val is the number valueOf is to give for the bytes r read as a big-endian
\* two's-complement integer v: v when |v| < 2^53, else the infinity of v's sign.
IsValueOfBytes(r, val) ==
    IF r[0] < 128
    THEN IF r[0] = 0 /\ r[1] < 32
         THEN val = Num(FALSE, [i \in MagIdx |-> IF i < 8 THEN r[7 - i] ELSE 0])
         ELSE val = Infinity(FALSE)
    ELSE IF r[0] = 255 /\ (r[1] > 224 \/ (r[1] = 224 /\ \E k \in 2..7 : r[k] # 0))
         THEN /\ val.ty = "number" /\ val.k = "finite" /\ val.neg
              /\ MagBelow2p53(val.mag)
              /\ Complements(val.mag, r)
         ELSE val = Infinity(TRUE)

\* The 16 hex digits of a string, with or without a leading 0x; << >> when the
\* string is not of that shape.
Digits16(s) ==
    LET d == IF Len(s) = 18 /\ s[1] = "0" /\ s[2] = "x" THEN SubSeq(s, 3, 18) ELSE s
    IN  IF Len(d) = 16 /\ \A j \in 1..16 : HexDigitOf(d[j]) < 16 THEN d ELSE << >>

LowerCase(d) == [j \in 1..Len(d) |-> HexChars[HexDigitOf(d[j]) + 1]]

\* The rendering of the bytes r as two hex digits each, sep between the bytes.
OctetsOf(r, sep) ==
    LET stride == 2 + Len(sep)
    IN  [j \in 1..(16 + 7 * Len(sep)) |->
            LET k == (j - 1) \div stride
                p == (j - 1) % stride
            IN  IF p = 0 THEN HexChars[(r[k] \div 16) + 1]
                ELSE IF p = 1 THEN HexChars[(r[k] % 16) + 1]
                ELSE sep[p - 1]]

\* A 32-bit half: an integer in [0, 2^32).
IsHalf(v) ==
    v.ty = "number" /\ v.k = "finite" /\ ~v.neg /\ \A i \in 4..8 : v.mag[i] = 0

\* Every byte complemented.
Scrambled(b) == [i \in DOMAIN b |-> 255 - b[i]]

-----------------------------------------------------------------------------
(* The claims. *)

\* C1: for every integer n with |n| < 2^53, after new Int64(n) or setValue(n)
\* on an Int64 that owns its Buffer, valueOf() returns exactly n.
C1_RoundTrip ==
    (owned /\ LastIsSetInteger /\ MagBelow2p53(last.args[1].mag) /\ obs.op = "valueOf")
        => (last.thrown = "none" /\ StrictEq(obs.val, last.args[1]))

\* Reached: setValue(-(2^53 - 1)) was called and valueOf() read it back.
C1_Witness ==
    /\ owned /\ last.op = "setValue" /\ obs.op = "valueOf"
    /\ last.args = <<Num(TRUE, MagBE(<<\h1f, \hff, \hff, \hff, \hff, \hff, \hff>>))>>

\* C2: the constructor and setValue throw a RangeError for every number
\* outside [-2^63, 2^63 - 1].
C2_OutOfRangeThrows ==
    (LastIsSetNumber /\ OutsideInt64(last.args[1])) => last.thrown = "RangeError"

\* C3: on an Int64 that owns its Buffer, valueOf() returns the stored signed
\* integer v when |v| < 2^53, +Infinity when v >= 2^53 and -Infinity when
\* v <= -2^53 (v = -2^63 included).
C3_ValueOfOwned ==
    (owned /\ obs.op = "valueOf") => IsValueOfBytes(Region(buffer, offset), obs.val)

\* Reached: the bytes are 80 00 00 00 00 00 00 00 and valueOf() gave -Infinity.
C3_Witness ==
    /\ owned /\ obs.op = "valueOf" /\ obs.val = Infinity(TRUE)
    /\ Region(buffer, offset) = [k \in 0..7 |-> IF k = 0 THEN 128 ELSE 0]

\* C4: after construction from a string of 16 hex digits, with or without a
\* leading 0x, the bytes are the bit pattern of the digits and toOctetString()
\* returns the digits in lower case.
C4_HexRoundTrip ==
    (LastIsSet /\ Len(last.args) = 1 /\ last.args[1].ty = "string"
       /\ Digits16(last.args[1].str) # << >>)
        => LET d == Digits16(last.args[1].str)
           IN  /\ last.thrown = "none"
               /\ \A k \in 0..7 :
                    buffer[offset + k] = 16 * HexDigitOf(d[2 * k + 1]) + HexDigitOf(d[2 * k + 2])
               /\ (obs.op = "toOctetString" /\ obs.sep = << >>)
                    => obs.val = Str(LowerCase(d))

\* Reached: new Int64("0xFEDCBA9876543210") and toOctetString() called on it.
C4_Witness ==
    /\ last.op = "new" /\ Len(last.args) = 1 /\ last.args[1].ty = "string"
    /\ Len(last.args[1].str) = 18 /\ last.args[1].str[3] = "F"
    /\ obs.op = "toOctetString" /\ obs.sep = << >>

\* A call of setValue or _2scomp on this Int64 is the step taken.
WriteThroughStep ==
    /\ last'.op \in {"setValue", "_2scomp"}
    /\ obs' = NoObs
    /\ nops' = nops + 1

\* C5: for an Int64 over a caller's Buffer S at offset o, toOctetString()
\* always renders the current bytes S[o..o+7], whatever wrote them, and
\* setValue and _2scomp on the Int64 change no byte of S outside [o, o+8).
C5_ViewAliasing ==
    /\ []((~owned /\ obs.op = "toOctetString")
            => obs.val = Str(OctetsOf(Region(buffer, offset), obs.sep)))
    /\ [][WriteThroughStep =>
            \A i \in DOMAIN buffer :
               (i < offset \/ i >= offset + 8) => buffer'[i] = buffer[i]]_vars

\* Reached: the owner wrote a byte inside the region of an Int64 at offset 1
\* and toOctetString() was then called.
C5_Witness ==
    /\ ~owned /\ offset = 1 /\ obs.op = "toOctetString"
    /\ last.op = "write" /\ last.this >= offset /\ last.this < offset + 8

\* C6: for an Int64 over a caller's Buffer at any offset o, valueOf() returns
\* the signed integer its own bytes S[o..o+7] encode (its sign from S[o]),
\* saturating at magnitude 2^53, whatever the bytes outside [o, o+8) are.
C6_ValueOfView ==
    (~owned /\ obs.op = "valueOf") => IsValueOfBytes(Region(buffer, offset), obs.val)

\* C7: from raw halves hi, lo in [0, 2^32) bytes 0-3 are hi and bytes 4-7 are
\* lo, most significant byte first, and toOctetString() is hi's 8 hex digits
\* followed by lo's.
C7_RawHalves ==
    (LastIsSet /\ Len(last.args) = 2 /\ IsHalf(last.args[1]) /\ IsHalf(last.args[2]))
        => LET hi == last.args[1].mag
               lo == last.args[2].mag
               r  == [k \in 0..7 |-> IF k < 4 THEN hi[3 - k] ELSE lo[7 - k]]
           IN  /\ last.thrown = "none"
               /\ Region(buffer, offset) = r
               /\ (obs.op = "toOctetString" /\ obs.sep = << >>)
                    => obs.val = Str(OctetsOf(r, << >>))

\* Reached: setValue(0x89abcdef, 0x00200000) and toOctetString() called.
C7_Witness ==
    /\ last.op = "setValue" /\ Len(last.args) = 2
    /\ last.args[1].mag[3] = \h89 /\ last.args[2].mag[2] = \h20
    /\ obs.op = "toOctetString" /\ obs.sep = << >>

C9_TwosCompTwice ==
    (last.op = "_2scomp" /\ last.run % 2 = 0) => buffer = last.before

\* Reached: two _2scomp calls in a row at offset 1 on 80 00 00 00 00 00 00 00,
\* where the carry out of the top byte is dropped.
C9_Witness ==
    /\ last.op = "_2scomp" /\ last.run = 2 /\ offset = 1
    /\ Region(buffer, offset) = [k \in 0..7 |-> IF k = 0 THEN 128 ELSE 0]

\* A call of setValue on this Int64 is the step taken.
SetValueStep ==
    /\ last'.op = "setValue"
    /\ obs' = NoObs
    /\ nops' = nops + 1

\* C10: a setValue that throws leaves all 8 bytes as they were; one that
\* returns has written all 8 bytes from its arguments: the bytes it leaves
\* are those it leaves when every byte of the Buffer was different before.
C10_AllOrNothing ==
    [][SetValueStep =>
         IF last'.thrown # "none"
         THEN buffer' = buffer
         ELSE Region(buffer', offset)
                = Region(setValue(Scrambled(buffer), offset, last'.args).b, offset)]_vars

\* Reached: setValue threw a RangeError on an Int64 holding -1.
C10_Witness ==
    /\ last.op = "setValue" /\ last.thrown = "RangeError"
    /\ Region(buffer, offset) = [k \in 0..7 |-> 255]

====
